---------------------------- MODULE Spec2Model ----------------------------
(***************************************************************************)
(* Model of the GitHubConnect client controller                            *)
(* (src/frontend/src/components/GitHubConnect.tsx).                        *)
(*                                                                         *)
(* The component is a single-threaded, event-driven React function         *)
(* component.  One action of the model is one event handler run to its     *)
(* first await, or one continuation of an async function after an await,   *)
(* followed by the re-render and the effects that the state change         *)
(* triggers.  Closures keep the values of the render they were created in: *)
(* the values an async function reads after an await are carried in its    *)
(* continuation record.                                                    *)
(***************************************************************************)
EXTENDS Integers, Sequences, FiniteSets, TLC

(***************************************************************************)
(* Program constants                                                       *)
(***************************************************************************)
MAX_SELECTION == 5

DEBOUNCE_MS == 500

\* The backend answers requires_selection when more repositories than this
\* are granted (spec.md section 9: observed as equal to MAX_SELECTION).
AUTO_THRESHOLD == 5

(***************************************************************************)
(* Bounds of the model                                                     *)
(***************************************************************************)
\* how many times the mount effect runs for one page load (StrictMode: 2)
MaxEffectRuns == 2

\* how many continuations may be pending at once
MaxInFlight == 2

\* how many browser timers may be pending at once
MaxTimers == 2

\* the largest amount of time one Tick lets pass
TickMs == 250

\* requests of one kind counted per user-triggered operation
MaxReqs == 3

\* the longest text typed into the search input
MaxFilterLen == 2

\* the number of updates after which an effect counts as not settling
MaxEffectUpdates == 4

(***************************************************************************)
(* Values                                                                  *)
(***************************************************************************)
AllRepos == <<"o/r1", "o/r2", "o/r3", "o/r4", "o/r5", "o/r6">>

RepoSet == {AllRepos[i] : i \in 1..Len(AllRepos)}

\* the short name of a repository (Repository.name)
ShortName(f) ==
  CASE f = "o/r1" -> "r1" [] f = "o/r2" -> "r2" [] f = "o/r3" -> "r3"
    [] f = "o/r4" -> "r4" [] f = "o/r5" -> "r5" [] OTHER -> "r6"

\* what the user may type into a path input
PathValues == {"", "dbt", "x"}

VTrue == "true"
VFalse == "false"
VNull == "null"

NoUser == ""
TheUser == "u1"
TheInstallation == 42

EmptyMap == [x \in {} |-> ""]

MapSet(m, k, v) == [x \in (DOMAIN m) \cup {k} |-> IF x = k THEN v ELSE m[x]]

MapDel(m, k) == [x \in (DOMAIN m) \ {k} |-> m[x]]

\* a list of repositories in the backend's order
SeqOf(S) == SelectSeq(AllRepos, LAMBDA f : f \in S)

Names(items) == {items[i].full_name : i \in 1..Len(items)}

(***************************************************************************)
(* The backend, as far as its answers are data (spec.md section 6)         *)
(***************************************************************************)
\* paths at which the backend finds a dbt_project.yml in a repository
ValidPaths(f) ==
  CASE f = "o/r1" -> {"dbt", "."}
    [] f = "o/r2" -> {}
    [] OTHER -> {"."}

BackendCloneOk(f) == f # "o/r6"

\* GET repos/{owner}/{repo}/validate-path -> {valid}
BackendValid(f, path) == path \in ValidPaths(f)

\* the analysis of one repository as the backend reports it
BackendAnalysis(f) ==
  [ full_name |-> f,
    clone_ok |-> BackendCloneOk(f),
    found |-> BackendCloneOk(f) /\ ValidPaths(f) # {},
    relative_path |-> IF BackendCloneOk(f) /\ ValidPaths(f) # {}
                      THEN CHOOSE p \in ValidPaths(f) : TRUE ELSE "" ]

BackendResults(S) == [i \in 1..Len(SeqOf(S)) |-> BackendAnalysis(SeqOf(S)[i])]

BackendRequiresSelection(S) == Cardinality(S) > AUTO_THRESHOLD

(***************************************************************************)
(* State                                                                   *)
(***************************************************************************)
VARIABLES
  mounted,            \* the page is loaded and the component mounted
  url,                \* window.location.search, as its four parameters
  storage,            \* localStorage: the four persisted keys
  user, installationId, repos, loading, error,
  requiresSelection, selectedRepos, analyzeResults, analyzing,
  searchFilter,       \* the text of the search input, as its characters
  dbtPaths, originalPaths, pathValidation, validatingPaths,
  debounceTimers,     \* debounceTimers.current: key -> timer handle
  processingRef,      \* processingRef.current
  timers,             \* the browser's pending setTimeout callbacks
  inflight,           \* pending continuations of async functions (a bag)
  granted,            \* backend: the repositories the installation grants
  lastOp,             \* history: the last handler or continuation that ran
  dispatched,         \* history: callback handlers dispatched by this page load
  removed,            \* history: keys removed from this page and not reinstalled
  editClock,          \* history: per key, the time since its last edit, that
                      \* edit's value, and whether the burst has 1 or more edits
  burstCalls,         \* history: per key, validations issued in this burst
  pathHist            \* history: per key whose path the user changed (by an
                      \* edit, or by a cancel, which also drops editClock),
                      \* the last validity recorded since then from an answer
                      \* for the current value of the path; "none" if none

uiVars == <<user, installationId, repos, loading, error>>

selVars == <<requiresSelection, selectedRepos, analyzing>>

resVars == <<analyzeResults, dbtPaths, originalPaths, pathValidation>>

timerVars == <<debounceTimers, timers, editClock, burstCalls, pathHist>>

vars == <<mounted, url, storage, user, installationId, repos, loading, error,
          requiresSelection, selectedRepos, analyzeResults, analyzing,
          dbtPaths, originalPaths, pathValidation, validatingPaths,
          debounceTimers, processingRef, timers, inflight, granted,
          lastOp, dispatched, removed, editClock, burstCalls, pathHist,
          searchFilter>>

(***************************************************************************)
(* Stored values                                                           *)
(***************************************************************************)
NullResults == [null |-> TRUE, items |-> <<>>]

Results(items) == [null |-> FALSE, items |-> items]

NoParams == [code |-> "", state |-> "", installation_id |-> "", setup_action |-> ""]

AbsentUserData == [present |-> FALSE, user |-> NoUser, installationId |-> 0]

AbsentAnalysisData ==
  [present |-> FALSE, analyzeResults |-> <<>>, dbtPaths |-> EmptyMap,
   originalPaths |-> EmptyMap, pathValidation |-> EmptyMap]

EmptyStorage ==
  [github_user_data |-> AbsentUserData,
   github_analysis_data |-> AbsentAnalysisData,
   oauth_state |-> "",
   pending_installation_id |-> ""]

\* JSON.stringify(userData) / JSON.parse: StoredUserData
StoredUserData(u, inst) == [present |-> TRUE, user |-> u, installationId |-> inst]

\* JSON.stringify(dataToStore) / JSON.parse: StoredAnalysisData.  The list is
\* stored as a list: the stored record does not tell a null list from a list.
StoredAnalysisData(ar, dp, op, pv) ==
  [present |-> TRUE, analyzeResults |-> ar.items, dbtPaths |-> dp,
   originalPaths |-> op, pathValidation |-> pv]

\* parseInt(installation_id) and installation_id.toString() (IdToString)
ParseInt(s) == IF s = "42" THEN 42 ELSE 0

IdToString(n) == IF n = 42 THEN "42" ELSE ""

(***************************************************************************)
(* Pending continuations                                                   *)
(***************************************************************************)
EmptyBag == [x \in {} |-> 0]

BagSize(B) ==
  LET RECURSIVE Sum(_)
      Sum(S) == IF S = {} THEN 0
                ELSE LET e == CHOOSE x \in S : TRUE IN B[e] + Sum(S \ {e})
  IN Sum(DOMAIN B)

BagAdd(B, e) ==
  IF e \in DOMAIN B THEN [B EXCEPT ![e] = @ + 1]
  ELSE [x \in (DOMAIN B) \cup {e} |-> IF x = e THEN 1 ELSE B[x]]

BagRemove(B, e) ==
  IF B[e] > 1 THEN [B EXCEPT ![e] = @ - 1]
  ELSE [x \in (DOMAIN B) \ {e} |-> B[x]]

\* A continuation: the async function it belongs to, the await it is
\* suspended at, and the values its closure holds.
Op(kind, stage) ==
  [kind |-> kind, stage |-> stage, retry |-> FALSE, uid |-> NoUser, inst |-> 0,
   names |-> {}, key |-> "", path |-> "", code |-> "", state |-> "",
   pending |-> "", hadAnalysis |-> FALSE, stateOk |-> TRUE,
   reqs |-> 0, restores |-> 0, first401 |-> FALSE, wasLoading |-> FALSE]

NoOp == [name |-> "", key |-> "", n |-> 0, path |-> ""]

DidOp(name, key, n) == [name |-> name, key |-> key, n |-> n, path |-> ""]

DidOpPath(name, key, n, path) == [name |-> name, key |-> key, n |-> n, path |-> path]

(***************************************************************************)
(* Effects (they run after the render that follows a state change)         *)
(***************************************************************************)
\* useEffect([analyzeResults, dbtPaths]): initialise the path state
InitPathsEffect(ar, dp, op, pv) ==
  IF ~ar.null /\ DOMAIN dp = {}
  THEN LET initialPaths ==
             [f \in Names(ar.items) |->
                LET r == CHOOSE x \in {ar.items[i] : i \in 1..Len(ar.items)} :
                           x.full_name = f
                IN IF r.found THEN r.relative_path ELSE ""]
           initialValidation ==
             [f \in Names(ar.items) |->
                LET r == CHOOSE x \in {ar.items[i] : i \in 1..Len(ar.items)} :
                           x.full_name = f
                IN IF r.found THEN VTrue ELSE VFalse]
       IN [dbtPaths |-> initialPaths, originalPaths |-> initialPaths,
           pathValidation |-> initialValidation]
  ELSE [dbtPaths |-> dp, originalPaths |-> op, pathValidation |-> pv]

\* How many times the effect above updates the state, starting from a render
\* with results ar and paths dp, counted up to left.  Each run whose condition
\* holds calls setDbtPaths(initialPaths) with an object built in that run;
\* dbtPaths is a dependency of the effect and the new object is never
\* identical to the old one, so the next render runs the effect again.
RECURSIVE InitPathsUpdates(_, _, _)
InitPathsUpdates(ar, dp, left) ==
  IF left = 0 THEN 0
  ELSE IF ~ar.null /\ DOMAIN dp = {}
  THEN 1 + InitPathsUpdates(ar, InitPathsEffect(ar, dp, EmptyMap, EmptyMap).dbtPaths,
                            left - 1)
  ELSE 0

\* useEffect([analyzeResults, dbtPaths, originalPaths, pathValidation]):
\* write the analysis record; st is localStorage as the handler left it
PersistEffect(ar, dp, op, pv, st) ==
  IF ~ar.null /\ Len(ar.items) > 0
  THEN [st EXCEPT !.github_analysis_data = StoredAnalysisData(ar, dp, op, pv)]
  ELSE st

\* A handler set (ar, dp, op, pv) and left localStorage as st: render, run
\* the two effects until nothing changes.
Render(ar, dp, op, pv, st) ==
  LET ip == InitPathsEffect(ar, dp, op, pv) IN
  /\ analyzeResults' = ar
  /\ dbtPaths' = ip.dbtPaths
  /\ originalPaths' = ip.originalPaths
  /\ pathValidation' = ip.pathValidation
  /\ storage' = PersistEffect(ar, ip.dbtPaths, ip.originalPaths,
                              ip.pathValidation, st)

(***************************************************************************)
(* Page load and the mount effect                                          *)
(***************************************************************************)
\* the mount effect without its one-shot flag and without the URL clean-up
MountEffectUnguarded(m) ==
  LET p == m.search IN
  IF p.installation_id # "" /\ p.setup_action # ""
  THEN [m EXCEPT !.calls = @ \o <<[fn |-> "handleInstallationCallback", p |-> p]>>
                             \o <<[fn |-> "restoreSession", p |-> NoParams]>>]
  ELSE IF p.code # ""
  THEN [m EXCEPT !.calls = @ \o <<[fn |-> "handleOAuthCallback", p |-> p]>>
                             \o <<[fn |-> "restoreSession", p |-> NoParams]>>]
  ELSE [m EXCEPT !.calls = @ \o <<[fn |-> "restoreSession", p |-> NoParams]>>]

\* the mount effect testing for an OAuth code first
MountEffectCodeFirst(m) ==
  IF m.processingRef THEN m
  ELSE LET p == m.search IN
       IF p.code # ""
       THEN [processingRef |-> TRUE, search |-> NoParams,
             calls |-> m.calls \o <<[fn |-> "handleOAuthCallback", p |-> p]>>
                               \o <<[fn |-> "restoreSession", p |-> NoParams]>>]
       ELSE IF p.installation_id # "" /\ p.setup_action # ""
       THEN [processingRef |-> TRUE, search |-> NoParams,
             calls |-> m.calls \o <<[fn |-> "handleInstallationCallback", p |-> p]>>
                               \o <<[fn |-> "restoreSession", p |-> NoParams]>>]
       ELSE [m EXCEPT !.calls = @ \o <<[fn |-> "restoreSession", p |-> NoParams]>>]

\* the mount effect leaving the callback parameters in the address bar
MountEffectKeepsUrl(m) ==
  IF m.processingRef THEN m
  ELSE LET p == m.search IN
       IF p.installation_id # "" /\ p.setup_action # ""
       THEN [processingRef |-> TRUE, search |-> p,
             calls |-> m.calls \o <<[fn |-> "handleInstallationCallback", p |-> p]>>
                               \o <<[fn |-> "restoreSession", p |-> NoParams]>>]
       ELSE IF p.code # ""
       THEN [processingRef |-> TRUE, search |-> p,
             calls |-> m.calls \o <<[fn |-> "handleOAuthCallback", p |-> p]>>
                               \o <<[fn |-> "restoreSession", p |-> NoParams]>>]
       ELSE [m EXCEPT !.calls = @ \o <<[fn |-> "restoreSession", p |-> NoParams]>>]

\* One run of the mount effect's classification (lines 101-122), on
\* m = [processingRef, search, calls]: calls collects the functions it calls.
MountEffect(m) ==
  IF m.processingRef THEN m
  ELSE LET p == m.search IN
       IF p.installation_id # "" /\ p.setup_action # ""
       THEN [processingRef |-> TRUE, search |-> NoParams,
             calls |-> m.calls \o <<[fn |-> "handleInstallationCallback", p |-> p]>>
                               \o <<[fn |-> "restoreSession", p |-> NoParams]>>]
       ELSE IF p.code # ""
       THEN [processingRef |-> TRUE, search |-> NoParams,
             calls |-> m.calls \o <<[fn |-> "handleOAuthCallback", p |-> p]>>
                               \o <<[fn |-> "restoreSession", p |-> NoParams]>>]
       ELSE [m EXCEPT !.calls = @ \o <<[fn |-> "restoreSession", p |-> NoParams]>>]

RECURSIVE MountEffectRuns(_, _)
MountEffectRuns(m, n) == IF n = 0 THEN m ELSE MountEffectRuns(MountEffect(m), n - 1)

\* handleOAuthCallback leaving the pending installation id out of the exchange
CallOpNoPending(c, st) ==
  CASE c.fn = "handleInstallationCallback" ->
         [Op("installCallback", "exchange") EXCEPT
            !.inst = ParseInt(c.p.installation_id), !.state = c.p.setup_action]
    [] c.fn = "handleOAuthCallback" ->
         [Op("oauthCallback", "exchange") EXCEPT
            !.code = c.p.code, !.state = c.p.state,
            !.stateOk = (c.p.state = "" \/ c.p.state = st.oauth_state)]
    [] OTHER ->
         IF st.github_user_data.present /\ st.github_user_data.installationId # 0
         THEN [Op("restoreSession", "restore") EXCEPT
                 !.uid = st.github_user_data.user,
                 !.inst = st.github_user_data.installationId,
                 !.hadAnalysis = st.github_analysis_data.present]
         ELSE Op("", "")

\* the continuation each called function leaves pending (none: kind "")
CallOp(c, st) ==
  CASE c.fn = "handleInstallationCallback" ->
         [Op("installCallback", "exchange") EXCEPT
            !.inst = ParseInt(c.p.installation_id), !.state = c.p.setup_action]
    [] c.fn = "handleOAuthCallback" ->
         [Op("oauthCallback", "exchange") EXCEPT
            !.code = c.p.code, !.state = c.p.state,
            !.pending = st.pending_installation_id,
            !.stateOk = (c.p.state = "" \/ c.p.state = st.oauth_state)]
    [] OTHER ->
         IF st.github_user_data.present /\ st.github_user_data.installationId # 0
         THEN [Op("restoreSession", "restore") EXCEPT
                 !.uid = st.github_user_data.user,
                 !.inst = st.github_user_data.installationId,
                 !.hadAnalysis = st.github_analysis_data.present]
         ELSE Op("", "")

RECURSIVE SpawnCalls(_, _, _)
SpawnCalls(B, calls, st) ==
  IF calls = <<>> THEN B
  ELSE LET o == CallOp(Head(calls), st) IN
       SpawnCalls(IF o.kind = "" THEN B ELSE BagAdd(B, o), Tail(calls), st)

IsCallback(c) == c.fn \in {"handleInstallationCallback", "handleOAuthCallback"}

\* The page loads at a URL with query parameters `params`; the component
\* mounts with its initial state and the mount effect runs n times.
Load(params, n, name) ==
  LET m == MountEffectRuns([processingRef |-> FALSE, search |-> params, calls |-> <<>>], n)
      cb == SelectSeq(m.calls, IsCallback)
      ud == storage.github_user_data
      ad == storage.github_analysis_data
  IN
  /\ mounted' = TRUE
  /\ url' = m.search
  /\ processingRef' = m.processingRef
  /\ dispatched' = [i \in 1..Len(cb) |->
                      [fn |-> cb[i].fn,
                       stateOk |-> CallOp(cb[i], storage).stateOk,
                       hadSession |-> ud.present]]
  /\ inflight' = SpawnCalls(EmptyBag, m.calls, storage)
  \* handleInstallationCallback / handleOAuthCallback: setLoading(true)
  /\ loading' = (Len(cb) > 0)
  /\ error' = ""
  /\ repos' = {}
  /\ requiresSelection' = FALSE
  /\ selectedRepos' = {}
  /\ analyzing' = FALSE
  /\ validatingPaths' = EmptyMap
  /\ debounceTimers' = EmptyMap
  /\ timers' = {}
  /\ editClock' = EmptyMap
  /\ burstCalls' = EmptyMap
  \* restoreSession, up to its first await
  /\ user' = IF ud.present THEN ud.user ELSE NoUser
  /\ installationId' = IF ud.present THEN ud.installationId ELSE 0
  /\ IF ud.present /\ ad.present
     THEN Render(Results(ad.analyzeResults), ad.dbtPaths, ad.originalPaths,
                 ad.pathValidation, storage)
     ELSE Render(NullResults, EmptyMap, EmptyMap, EmptyMap, storage)
  /\ removed' = {}
  /\ lastOp' = DidOpPath(name, params.code, n, params.state)
  /\ searchFilter' = <<>>
  /\ pathHist' = EmptyMap
  /\ UNCHANGED granted

\* the query parameters a navigation may carry
NavParams ==
  { NoParams,
    [NoParams EXCEPT !.installation_id = "42", !.setup_action = "install"],
    [NoParams EXCEPT !.code = "c1", !.state = "s2"],
    [NoParams EXCEPT !.code = "c1", !.state = "evil"],
    [NoParams EXCEPT !.code = "c1"],
    [NoParams EXCEPT !.installation_id = "42", !.setup_action = "install",
                     !.code = "c1", !.state = "s2"] }

\* the user opens the page, or a provider redirects back to it
\* every combination of the four query parameters being present or absent
AllNavParams ==
  [code : {"", "c1"}, state : {"", "s2"},
   installation_id : {"", "42"}, setup_action : {"", "install"}]

\* the browser navigates to the page with one of the queries P
NavigateTo(P) ==
  \E params \in P, n \in 1..MaxEffectRuns : Load(params, n, "navigate")

Navigate == NavigateTo(NavParams)

\* the callback exchanges pending for this page load
PendingExchanges ==
  LET ex == {o \in DOMAIN inflight :
               \/ o.kind = "installCallback"
               \/ o.kind = "oauthCallback" /\ o.stage = "exchange"}
      RECURSIVE Sum(_)
      Sum(S) == IF S = {} THEN 0
                ELSE LET e == CHOOSE x \in S : TRUE IN inflight[e] + Sum(S \ {e})
  IN Sum(ex)

\* the user opens or reloads the page at its plain address
Reload ==
  /\ mounted
  /\ \E n \in 1..MaxEffectRuns :
       Load(url, n, IF PendingExchanges > 0 THEN "reloadInExchange" ELSE "reload")

(***************************************************************************)
(* restoreSession, after its await (lines 146-170)                         *)
(***************************************************************************)
Detail401 == "Not authenticated"

DetailError == "backend error"

\* fetchRepos(retryAfterRestore = true) up to its first await, in the closure
\* of the current render: the continuation it leaves pending
FetchReposCall ==
  [Op("fetchRepos", "repos") EXCEPT
     !.retry = TRUE, !.uid = user, !.inst = installationId,
     !.names = Names(analyzeResults.items), !.reqs = 1]

\* restoreSession clearing the session on every unsuccessful answer
WipesOnAnyFailure(outcome) == outcome \in {"token", "other"}

\* does this failure of the restore call clear the stored session? (line 156)
WipesOnFailure(outcome) == outcome = "token"

\* restoreSession fetching whether or not an analysis record was stored
FetchesAfterRestoreAlways(o) == TRUE

\* does a successful restore go on to fetchRepos? (line 163)
FetchesAfterRestore(o) == ~o.hadAnalysis

\* the backend answers POST auth/restore for the load-time restore
RestoreSessionResponse ==
  \E o \in DOMAIN inflight, outcome \in {"ok", "token", "other", "throw"} :
    /\ mounted
    /\ o.kind = "restoreSession"
    /\ lastOp' = DidOp("restoreSessionResponse", outcome,
                       IF o.hadAnalysis THEN 1 ELSE 0)
    /\ CASE outcome # "ok" /\ outcome # "throw" /\ WipesOnFailure(outcome) ->
              \* message includes "Failed to get installation token"
              /\ storage' = [storage EXCEPT
                     !.github_user_data = AbsentUserData,
                     !.github_analysis_data = AbsentAnalysisData]
              /\ user' = NoUser
              /\ installationId' = 0
              /\ inflight' = BagRemove(inflight, o)
              /\ UNCHANGED <<loading, error>>
         [] outcome = "ok" /\ FetchesAfterRestore(o) /\ user # NoUser ->
              \* fetchReposRef.current?.()
              /\ inflight' = BagAdd(BagRemove(inflight, o), FetchReposCall)
              /\ loading' = TRUE
              /\ error' = ""
              /\ UNCHANGED <<storage, user, installationId>>
         [] OTHER ->
              /\ inflight' = BagRemove(inflight, o)
              /\ UNCHANGED <<storage, user, installationId, loading, error>>
    /\ UNCHANGED <<mounted, url, repos, selVars, analyzeResults, dbtPaths,
                   originalPaths, pathValidation, validatingPaths, timerVars,
                   processingRef, granted, searchFilter, dispatched, removed>>

(***************************************************************************)
(* fetchRepos (lines 291-350)                                              *)
(***************************************************************************)
\* the "Load Repos" / "Add More Repos" button
FetchRepos ==
  /\ mounted
  /\ user # NoUser
  /\ ~requiresSelection
  /\ ~loading
  /\ BagSize(inflight) < MaxInFlight
  /\ inflight' = BagAdd(inflight, FetchReposCall)
  /\ loading' = TRUE
  /\ error' = ""
  /\ lastOp' = NoOp
  /\ UNCHANGED <<mounted, url, storage, user, installationId, repos, selVars,
                 resVars, validatingPaths, timerVars, processingRef, granted, searchFilter,
                 dispatched, removed>>

\* a response check that lets a backend error status pass
ResponseOkLoose(outcome) == outcome \in {"ok", "error"}

\* if (!response.ok) throw ... (lines 322, 402): the state is installed from
\* a 2xx answer only
ResponseOk(outcome) == outcome = "ok"

\* history: which request of its operation a continuation waits for
Attempt(o) ==
  IF ~o.retry THEN "retry" ELSE IF o.inst # 0 THEN "first" ELSE "first-noinst"

\* the 401 check without the retryAfterRestore flag
RetriesAfter401Always(o) == o.inst # 0

\* does a 401 answer to this request start a restore? (lines 303, 384)
RetriesAfter401(o) == o.retry /\ o.inst # 0

\* the request fetchRepos makes again after a successful restore:
\* fetchRepos(false), in the same closure
FetchReposRetry(o) ==
  [o EXCEPT !.stage = "repos", !.retry = FALSE, !.reqs = @ + 1]

\* a selection list that starts with every listed repository ticked
PrepopulatedAll(names, listed) == listed

\* new Set(existingFullNames) (lines 331-332): the selection fetchRepos
\* installs when the backend asks for one; names are the full names of the
\* analysis results in the closure, listed the repositories received
PrepopulatedSelection(names, listed) == names

\* the backend answers GET repos
FetchReposResponse ==
  \E o \in DOMAIN inflight, outcome \in {"ok", "401", "error", "throw"} :
    /\ mounted
    /\ o.kind = "fetchRepos" /\ o.stage = "repos"
    /\ lastOp' = DidOpPath("fetchReposResponse", outcome, o.reqs, Attempt(o))
    /\ CASE outcome = "401" /\ RetriesAfter401(o) ->
              /\ o.restores < MaxReqs
              /\ inflight' = BagAdd(BagRemove(inflight, o),
                     [o EXCEPT !.stage = "restore", !.restores = @ + 1,
                               !.first401 = TRUE])
              /\ UNCHANGED <<repos, loading, error, requiresSelection,
                             selectedRepos, resVars, storage, removed>>
         [] ResponseOk(outcome) ->
              /\ inflight' = BagRemove(inflight, o)
              /\ repos' = granted
              /\ requiresSelection' = BackendRequiresSelection(granted)
              /\ loading' = FALSE
              /\ IF BackendRequiresSelection(granted)
                 THEN \* pre-populate with the already-analyzed repos
                      /\ selectedRepos' = PrepopulatedSelection(o.names, granted)
                      /\ UNCHANGED <<resVars, storage, removed>>
                 ELSE /\ Render(Results(BackendResults(granted)), dbtPaths,
                                originalPaths, pathValidation, storage)
                      /\ removed' = removed \ granted
                      /\ UNCHANGED selectedRepos
              /\ UNCHANGED error
         [] OTHER ->
              /\ inflight' = BagRemove(inflight, o)
              /\ error' = CASE outcome = "401" -> Detail401
                            [] outcome = "error" -> DetailError
                            [] OTHER -> "Failed to fetch repositories"
              /\ loading' = FALSE
              /\ UNCHANGED <<repos, requiresSelection, selectedRepos, resVars,
                             storage, removed>>
    /\ UNCHANGED <<mounted, url, user, installationId, analyzing,
                   validatingPaths, timerVars, processingRef, granted, searchFilter, dispatched>>

\* the backend answers the POST auth/restore that fetchRepos made after a 401
FetchRestoreResponse ==
  \E o \in DOMAIN inflight, outcome \in {"ok", "fail", "throw"} :
    /\ mounted
    /\ o.kind = "fetchRepos" /\ o.stage = "restore"
    /\ lastOp' = DidOp("fetchRestoreResponse", outcome, o.reqs)
    /\ IF outcome = "ok"
       THEN /\ o.reqs < MaxReqs
            /\ inflight' = BagAdd(BagRemove(inflight, o), FetchReposRetry(o))
            \* `return fetchRepos(false)`: the inner call sets loading, then
            \* the outer finally clears it while the retry is pending
            /\ loading' = FALSE
            /\ error' = ""
       ELSE \* the 401 response is read and thrown as the error
            /\ inflight' = BagRemove(inflight, o)
            /\ loading' = FALSE
            /\ error' = Detail401
    /\ UNCHANGED <<mounted, url, storage, user, installationId, repos, selVars,
                   resVars, validatingPaths, timerVars, processingRef, granted, searchFilter,
                   dispatched, removed>>

(***************************************************************************)
(* Selection (lines 355-415)                                               *)
(***************************************************************************)
\* Repository.name and Repository.full_name as their characters
NameChars(f) ==
  <<"r", CASE f = "o/r1" -> "1" [] f = "o/r2" -> "2" [] f = "o/r3" -> "3"
           [] f = "o/r4" -> "4" [] f = "o/r5" -> "5" [] OTHER -> "6">>

FullNameChars(f) == <<"o", "/">> \o NameChars(f)

\* what the user may type into the search input
FilterChars == {"R", "1", "/"}

\* the texts one keystroke (a character typed or deleted at the end) or the
\* clear button makes of the text v
FilterValues(v) ==
  {<<>>}
  \cup (IF Len(v) > 0 THEN {SubSeq(v, 1, Len(v) - 1)} ELSE {})
  \cup (IF Len(v) < MaxFilterLen THEN {Append(v, c) : c \in FilterChars} ELSE {})

\* String.prototype.toLowerCase, on the characters that occur
ToLowerChar(c) == CASE c = "R" -> "r" [] c = "O" -> "o" [] OTHER -> c

ToLowerCase(s) == [i \in 1..Len(s) |-> ToLowerChar(s[i])]

\* String.prototype.includes: t occurs in s at position i or later
RECURSIVE IncludesFrom(_, _, _)
IncludesFrom(s, t, i) ==
  IF i + Len(t) - 1 > Len(s) THEN FALSE
  ELSE IF SubSeq(s, i, i + Len(t) - 1) = t THEN TRUE
  ELSE IncludesFrom(s, t, i + 1)

Includes(s, t) == IncludesFrom(s, t, 1)

\* the rows of the selection list (lines 680-684)
Displayed ==
  {f \in repos :
     \/ Includes(ToLowerCase(NameChars(f)), ToLowerCase(searchFilter))
     \/ Includes(ToLowerCase(FullNameChars(f)), ToLowerCase(searchFilter))}

\* the search input and its clear button (lines 664-671)
SetSearchFilter ==
  \E v \in FilterValues(searchFilter) :
    /\ mounted
    /\ user # NoUser
    /\ repos # {}
    /\ requiresSelection
    /\ v # searchFilter
    /\ searchFilter' = v
    /\ lastOp' = DidOp("setSearchFilter", "", 0)
    /\ UNCHANGED <<mounted, url, storage, uiVars, selVars, resVars,
                   validatingPaths, timerVars, processingRef, inflight, granted,
                   dispatched, removed>>

\* toggleRepoSelection without its size check
ToggledSelectionUnlimited(prev, fullName) ==
  IF fullName \in prev THEN prev \ {fullName} ELSE prev \cup {fullName}

\* the set toggleRepoSelection computes from the previous one
ToggledSelection(prev, fullName) ==
  IF fullName \in prev THEN prev \ {fullName}
  ELSE IF Cardinality(prev) < MAX_SELECTION THEN prev \cup {fullName}
  ELSE prev

\* a checkbox of the selection list, among the repositories `shown`; the
\* handler's own guard is what limits the set (the disabled attribute of the
\* checkbox repeats it)
ToggleRepoSelectionIn(shown) ==
  \E f \in Displayed \cap shown :
    /\ mounted
    /\ user # NoUser
    /\ requiresSelection
    /\ selectedRepos' = ToggledSelection(selectedRepos, f)
    /\ lastOp' = DidOp("toggleRepoSelection", f, Cardinality(selectedRepos))
    /\ UNCHANGED <<mounted, url, storage, uiVars, requiresSelection, analyzing,
                   resVars, validatingPaths, timerVars, processingRef, inflight,
                   granted, searchFilter, dispatched, removed>>

\* the Cancel button of the selection list: setRequiresSelection(false)
CancelSelection ==
  /\ mounted
  /\ user # NoUser
  /\ requiresSelection
  /\ repos # {}
  /\ ~analyzeResults.null
  /\ requiresSelection' = FALSE
  /\ lastOp' = NoOp
  /\ UNCHANGED <<mounted, url, storage, uiVars, selectedRepos, analyzing,
                 resVars, validatingPaths, timerVars, processingRef, inflight,
                 granted, searchFilter, dispatched, removed>>

\* an analyze request that carries the displayed part of the selection only
SubmittedNamesShown == selectedRepos \cap Displayed

\* body: JSON.stringify(Array.from(selectedRepos)) (line 379)
SubmittedNames == selectedRepos

\* the "Select n Repos" button: analyzeSelected() up to its first await
AnalyzeSelected ==
  /\ mounted
  /\ user # NoUser
  /\ requiresSelection
  /\ repos # {}
  /\ selectedRepos # {}
  /\ ~analyzing
  /\ BagSize(inflight) < MaxInFlight
  /\ inflight' = BagAdd(inflight,
        [Op("analyzeSelected", "analyze") EXCEPT
           !.retry = TRUE, !.uid = user, !.inst = installationId,
           !.names = SubmittedNames, !.reqs = 1])
  /\ analyzing' = TRUE
  /\ error' = ""
  /\ lastOp' = DidOp("analyzeSelected", "", Cardinality(selectedRepos))
  /\ UNCHANGED <<mounted, url, storage, user, installationId, repos, loading,
                 requiresSelection, selectedRepos, resVars, validatingPaths,
                 timerVars, processingRef, granted, searchFilter, dispatched, removed>>

\* analyzeSelected keeping the earlier results that were not returned
InstalledResultsMerged(prev, results) ==
  IF prev.null THEN Results(results)
  ELSE Results(SelectSeq(prev.items,
                 LAMBDA r : \A i \in 1..Len(results) :
                              results[i].full_name # r.full_name)
               \o results)

\* the result list analyzeSelected installs on success (line 406), from the
\* list it held before and the results the backend returned
InstalledResults(prev, results) == Results(results)

\* the backend answers POST repos/analyze
AnalyzeResponse ==
  \E o \in DOMAIN inflight, outcome \in {"ok", "401", "error", "throw"} :
    /\ mounted
    /\ o.kind = "analyzeSelected" /\ o.stage = "analyze"
    /\ lastOp' = DidOpPath("analyzeResponse", outcome, o.reqs, Attempt(o))
    /\ CASE outcome = "401" /\ RetriesAfter401(o) ->
              /\ o.restores < MaxReqs
              /\ inflight' = BagAdd(BagRemove(inflight, o),
                     [o EXCEPT !.stage = "restore", !.restores = @ + 1,
                               !.first401 = TRUE])
              /\ UNCHANGED <<analyzing, error, requiresSelection, resVars,
                             storage, removed>>
         [] ResponseOk(outcome) ->
              /\ inflight' = BagRemove(inflight, o)
              /\ Render(InstalledResults(analyzeResults, BackendResults(o.names)),
                        dbtPaths, originalPaths, pathValidation, storage)
              /\ requiresSelection' = FALSE
              /\ analyzing' = FALSE
              /\ removed' = removed \ o.names
              /\ UNCHANGED error
         [] OTHER ->
              /\ inflight' = BagRemove(inflight, o)
              /\ error' = CASE outcome = "401" -> Detail401
                            [] outcome = "error" -> DetailError
                            [] OTHER -> "Failed to analyze repositories"
              /\ analyzing' = FALSE
              /\ UNCHANGED <<requiresSelection, resVars, storage, removed>>
    /\ UNCHANGED <<mounted, url, user, installationId, repos, loading,
                   selectedRepos, validatingPaths, timerVars, processingRef,
                   granted, searchFilter, dispatched>>

\* the backend answers the POST auth/restore that analyzeSelected made
AnalyzeRestoreResponse ==
  \E o \in DOMAIN inflight, outcome \in {"ok", "fail", "throw"} :
    /\ mounted
    /\ o.kind = "analyzeSelected" /\ o.stage = "restore"
    /\ lastOp' = DidOp("analyzeRestoreResponse", outcome, o.reqs)
    /\ IF outcome = "ok"
       THEN \* analyzeSelected(false), in the same closure
            /\ o.reqs < MaxReqs
            /\ inflight' = BagAdd(BagRemove(inflight, o),
                   [o EXCEPT !.stage = "analyze", !.retry = FALSE, !.reqs = @ + 1])
            \* the outer finally runs after the inner call's first part
            /\ analyzing' = FALSE
            /\ error' = ""
       ELSE /\ inflight' = BagRemove(inflight, o)
            /\ analyzing' = FALSE
            /\ error' = Detail401
    /\ UNCHANGED <<mounted, url, storage, user, installationId, repos, loading,
                   requiresSelection, selectedRepos, resVars, validatingPaths,
                   timerVars, processingRef, granted, searchFilter, dispatched, removed>>

(***************************************************************************)
(* handleRemoveRepo (lines 496-515)                                        *)
(***************************************************************************)
\* the list setAnalyzeResults computes in handleRemoveRepo
RemovedResults(prev, fullName) ==
  IF prev.null THEN NullResults
  ELSE LET updated == SelectSeq(prev.items, LAMBDA r : r.full_name # fullName)
       IN IF Len(updated) > 0 THEN Results(updated) ELSE NullResults

\* the remove button of a result card, among the cards `shown`
HandleRemoveRepoIn(shown) ==
  \E f \in Names(analyzeResults.items) \cap shown :
    /\ mounted
    /\ user # NoUser
    /\ ~requiresSelection
    /\ Render(RemovedResults(analyzeResults, f), MapDel(dbtPaths, f),
              MapDel(originalPaths, f), MapDel(pathValidation, f), storage)
    /\ removed' = removed \cup {f}
    /\ pathHist' = MapDel(pathHist, f)
    /\ lastOp' = NoOp
    /\ UNCHANGED <<mounted, url, uiVars, selVars, validatingPaths, debounceTimers,
                   timers, editClock, burstCalls,
                   processingRef, inflight, granted, searchFilter, dispatched>>

\* the remove button of any result card
HandleRemoveRepo == HandleRemoveRepoIn(RepoSet)

(***************************************************************************)
(* Path editing (lines 448-493)                                            *)
(***************************************************************************)
\* m[k] of a JavaScript object: undefined when the key is missing
Get(m, k) == IF k \in DOMAIN m THEN m[k] ELSE "undefined"

\* path || '.' (line 455)
PathOrDot(path) == IF path = "" THEN "." ELSE path

\* the result cards that show a path input: clone_status.success
Editable ==
  IF mounted /\ user # NoUser /\ ~analyzeResults.null /\ ~requiresSelection
  THEN {analyzeResults.items[i].full_name : i \in
          {j \in 1..Len(analyzeResults.items) : analyzeResults.items[j].clone_ok}}
  ELSE {}

Min(a, b) == IF a < b THEN a ELSE b

\* the time to the next timer that is due, at most TickMs
TickAmount ==
  LET RECURSIVE Least(_, _)
      Least(S, m) == IF S = {} THEN m
                     ELSE LET t == CHOOSE x \in S : TRUE
                          IN Least(S \ {t}, Min(m, t.left))
  IN Least(timers, TickMs)

\* validateDbtPath(fullName, path) up to its await
ValidateCall(fullName, path) ==
  [Op("validateDbtPath", "validate") EXCEPT !.key = fullName, !.path = path]

\* handlePathChange without its clearTimeout
ClearedTimersNever(ts, handle) == ts

\* handlePathChange clearing every pending timer
ClearedTimersAll(ts, handle) == {}

\* the browser's timers after handlePathChange cleared the key's timer
\* (lines 472-474); handle is debounceTimers.current[fullName]
ClearedTimers(ts, handle) ==
  IF handle # 0 THEN {t \in ts : t.id # handle} ELSE ts

\* debounceTimers.current[fullName]; 0 stands for a missing handle and for
\* the handle of a timer that has already run (clearTimeout ignores both)
HandleOf(fullName) ==
  IF fullName \in DOMAIN debounceTimers THEN debounceTimers[fullName] ELSE 0

\* the delay handlePathChange gives setTimeout (line 479)
DebounceDelay == DEBOUNCE_MS

\* typing into the path input of a result card
HandlePathChange ==
  \E f \in Editable, newPath \in PathValues :
    LET cleared == ClearedTimers(timers, HandleOf(f))
        free == {i \in 1..MaxTimers : \A t \in cleared : t.id # i}
        newBurst == f \notin DOMAIN editClock \/ editClock[f].t >= DEBOUNCE_MS
    IN
    /\ \A t \in timers : ~(t.key = f /\ t.left = 0)
    /\ free # {}
    /\ LET id == CHOOSE i \in free : \A j \in free : i <= j IN
       /\ timers' = cleared \cup
                    {[id |-> id, key |-> f, path |-> newPath, left |-> DebounceDelay]}
       /\ debounceTimers' = MapSet(debounceTimers, f, id)
    /\ Render(analyzeResults, MapSet(dbtPaths, f, newPath), originalPaths,
              MapSet(pathValidation, f, VNull), storage)
    /\ editClock' = MapSet(editClock, f,
                            [t |-> 0, path |-> newPath,
                             edits |-> IF newBurst THEN 1 ELSE 2])
    /\ burstCalls' = MapSet(burstCalls, f, IF newBurst THEN 0 ELSE burstCalls[f])
    /\ pathHist' = MapSet(pathHist, f, "none")
    /\ lastOp' = NoOp
    /\ UNCHANGED <<mounted, url, uiVars, selVars, validatingPaths, processingRef,
                   inflight, granted, searchFilter, dispatched, removed>>

\* time passes, up to the moment the next timer is due
Tick ==
  /\ mounted
  /\ \A t \in timers : t.left > 0
  /\ timers # {} \/ \E k \in DOMAIN editClock : editClock[k].t <= DEBOUNCE_MS
  /\ timers' = {[t EXCEPT !.left = @ - TickAmount] : t \in timers}
  /\ editClock' = [k \in DOMAIN editClock |->
                     [editClock[k] EXCEPT !.t = Min(@ + TickAmount, DEBOUNCE_MS + 1)]]
  /\ lastOp' = NoOp
  /\ UNCHANGED <<mounted, url, storage, uiVars, selVars, resVars, validatingPaths,
                 debounceTimers, burstCalls, pathHist, processingRef, inflight,
                 granted, searchFilter, dispatched, removed>>

\* a debounce timer is due: its callback calls validateDbtPath
DebounceTimerFires ==
  \E t \in timers :
    /\ mounted
    /\ t.left = 0
    /\ BagSize(inflight) < MaxInFlight
    /\ timers' = timers \ {t}
    /\ debounceTimers' = [k \in DOMAIN debounceTimers |->
                            IF debounceTimers[k] = t.id THEN 0 ELSE debounceTimers[k]]
    /\ validatingPaths' = MapSet(validatingPaths, t.key, TRUE)
    /\ inflight' = BagAdd(inflight, ValidateCall(t.key, t.path))
    /\ burstCalls' = [k \in DOMAIN burstCalls |->
                        IF k = t.key THEN Min(burstCalls[k] + 1, MaxReqs)
                        ELSE burstCalls[k]]
    /\ lastOp' = DidOpPath("debounceTimer", t.key,
                           IF t.key \in DOMAIN editClock THEN editClock[t.key].t ELSE -1,
                           t.path)
    /\ UNCHANGED <<mounted, url, storage, uiVars, selVars, resVars, editClock,
                   pathHist, processingRef, granted, searchFilter, dispatched,
                   removed>>

\* the validity validateDbtPath records for an answer (lines 457-460)
ValidityOf(fullName, path, outcome) ==
  IF outcome = "answer" /\ BackendValid(fullName, PathOrDot(path)) THEN VTrue ELSE VFalse

\* the backend answers GET validate-path, or the request fails
ValidateResponse ==
  \E o \in DOMAIN inflight, outcome \in {"answer", "throw"} :
    /\ mounted
    /\ o.kind = "validateDbtPath"
    /\ inflight' = BagRemove(inflight, o)
    /\ Render(analyzeResults, dbtPaths, originalPaths,
              MapSet(pathValidation, o.key, ValidityOf(o.key, o.path, outcome)),
              storage)
    /\ validatingPaths' = MapSet(validatingPaths, o.key, FALSE)
    /\ pathHist' = IF o.key \in DOMAIN pathHist /\ o.path = Get(dbtPaths, o.key)
                   THEN MapSet(pathHist, o.key, ValidityOf(o.key, o.path, outcome))
                   ELSE pathHist
    /\ lastOp' = NoOp
    /\ UNCHANGED <<mounted, url, uiVars, selVars, debounceTimers, timers,
                   editClock, burstCalls, processingRef,
                   granted, searchFilter, dispatched, removed>>

\* a Save button that is never disabled
SaveEnabledAlways(f) == TRUE

\* disabled={pathValidation[f] !== true} (line 796)
SaveEnabled(f) == Get(pathValidation, f) = VTrue

\* the Save button: shown when the path differs from the original one,
\* enabled when the validity is true (lines 790-797)
HandleSavePath ==
  \E f \in Editable :
    /\ Get(dbtPaths, f) # Get(originalPaths, f)
    /\ SaveEnabled(f)
    /\ Render(analyzeResults, dbtPaths, MapSet(originalPaths, f, Get(dbtPaths, f)),
              pathValidation, storage)
    /\ lastOp' = DidOpPath("handleSavePath", f, 0, Get(dbtPaths, f))
    /\ UNCHANGED <<mounted, url, uiVars, selVars, validatingPaths, timerVars,
                   processingRef, inflight, granted, searchFilter, dispatched, removed>>

\* the revert button: shown when the path differs from the original one
HandleCancelPath ==
  \E f \in Editable :
    LET originalPath == IF f \in DOMAIN originalPaths THEN originalPaths[f] ELSE "" IN
    /\ Get(dbtPaths, f) # Get(originalPaths, f)
    /\ BagSize(inflight) < MaxInFlight
    /\ Render(analyzeResults, MapSet(dbtPaths, f, originalPath), originalPaths,
              pathValidation, storage)
    /\ validatingPaths' = MapSet(validatingPaths, f, TRUE)
    /\ inflight' = BagAdd(inflight, ValidateCall(f, originalPath))
    \* a burst interrupted by a revert is no longer a sequence of edits
    /\ editClock' = MapDel(editClock, f)
    /\ burstCalls' = MapDel(burstCalls, f)
    /\ pathHist' = MapSet(pathHist, f, "none")
    /\ lastOp' = NoOp
    /\ UNCHANGED <<mounted, url, uiVars, selVars, debounceTimers, timers,
                   processingRef, granted, searchFilter, dispatched, removed>>

(***************************************************************************)
(* Leaving the page                                                        *)
(***************************************************************************)
\* window.location.href = ...: the page is left with localStorage st; the
\* component, its timers and its pending continuations are gone
Unloaded(st) ==
  /\ mounted' = FALSE
  /\ url' = NoParams
  /\ storage' = st
  /\ user' = NoUser
  /\ installationId' = 0
  /\ repos' = {}
  /\ loading' = FALSE
  /\ error' = ""
  /\ requiresSelection' = FALSE
  /\ selectedRepos' = {}
  /\ analyzeResults' = NullResults
  /\ analyzing' = FALSE
  /\ dbtPaths' = EmptyMap
  /\ originalPaths' = EmptyMap
  /\ pathValidation' = EmptyMap
  /\ validatingPaths' = EmptyMap
  /\ debounceTimers' = EmptyMap
  /\ processingRef' = FALSE
  /\ timers' = {}
  /\ inflight' = EmptyBag
  /\ editClock' = EmptyMap
  /\ burstCalls' = EmptyMap
  /\ pathHist' = EmptyMap
  /\ searchFilter' = <<>>
  /\ UNCHANGED <<granted, dispatched, removed>>

(***************************************************************************)
(* handleConnect (lines 177-195)                                           *)
(***************************************************************************)
\* "Install GitHub App": the connect button (disabled while loading) or the
\* install button of a session without installation
HandleConnect ==
  /\ mounted
  /\ \/ user = NoUser /\ ~loading
     \/ user # NoUser /\ installationId = 0
  /\ BagSize(inflight) < MaxInFlight
  /\ inflight' = BagAdd(inflight, [Op("handleConnect", "install") EXCEPT
                                      !.wasLoading = loading])
  /\ loading' = TRUE
  /\ error' = ""
  /\ lastOp' = NoOp
  /\ UNCHANGED <<mounted, url, storage, user, installationId, repos, selVars,
                 resVars, validatingPaths, timerVars, processingRef, granted, searchFilter,
                 dispatched, removed>>

\* the backend answers GET install
ConnectResponse ==
  \E o \in DOMAIN inflight, outcome \in {"url", "nourl", "throw"} :
    /\ mounted
    /\ o.kind = "handleConnect"
    /\ lastOp' = DidOp("connectResponse", outcome, IF o.wasLoading THEN 1 ELSE 0)
    /\ CASE outcome = "url" ->
              Unloaded([storage EXCEPT !.oauth_state = "s1"])
         [] outcome = "nourl" ->
              /\ inflight' = BagRemove(inflight, o)
              /\ UNCHANGED <<mounted, url, storage, uiVars, selVars, resVars,
                             validatingPaths, timerVars, processingRef, granted, searchFilter,
                             dispatched, removed>>
         [] OTHER ->
              /\ inflight' = BagRemove(inflight, o)
              /\ error' = "Failed to initiate GitHub connection"
              /\ loading' = FALSE
              /\ UNCHANGED <<mounted, url, storage, user, installationId, repos,
                             selVars, resVars, validatingPaths, timerVars,
                             processingRef, granted, searchFilter, dispatched, removed>>

(***************************************************************************)
(* handleInstallationCallback (lines 197-222)                              *)
(***************************************************************************)
\* the backend answers the installation callback exchange
InstallCallbackResponse ==
  \E o \in DOMAIN inflight, outcome \in {"needs_oauth", "success", "error", "throw"} :
    /\ mounted
    /\ o.kind = "installCallback"
    /\ lastOp' = DidOp("installCallbackResponse", outcome, o.inst)
    /\ CASE outcome = "needs_oauth" ->
              Unloaded([storage EXCEPT
                          !.pending_installation_id = IdToString(o.inst),
                          !.oauth_state = "s2"])
         [] outcome = "throw" ->
              /\ inflight' = BagRemove(inflight, o)
              /\ error' = "Failed to complete installation"
              /\ loading' = FALSE
              /\ UNCHANGED <<mounted, url, storage, user, installationId, repos,
                             selVars, resVars, validatingPaths, timerVars,
                             processingRef, granted, searchFilter, dispatched, removed>>
         [] OTHER ->
              \* any other body, a full completion included, is ignored
              /\ inflight' = BagRemove(inflight, o)
              /\ UNCHANGED <<mounted, url, storage, uiVars, selVars, resVars,
                             validatingPaths, timerVars, processingRef, granted, searchFilter,
                             dispatched, removed>>

(***************************************************************************)
(* handleOAuthCallback (lines 224-289)                                     *)
(***************************************************************************)
\* handleOAuthCallback calling setUser(data.user) for every answer
UserAfterExchangeUnchecked(prev, outcome) ==
  IF outcome \in {"success", "success_noinst"} THEN TheUser ELSE NoUser

\* the user after the exchange answered: setUser(data.user) runs only for
\* data.success && data.user (lines 243-244)
UserAfterExchange(prev, outcome) ==
  IF outcome \in {"success", "success_noinst"} THEN TheUser ELSE prev

\* the backend answers the OAuth callback exchange
OAuthCallbackResponse ==
  \E o \in DOMAIN inflight,
     outcome \in {"success", "success_noinst", "nosuccess", "error", "throw"} :
    /\ mounted
    /\ o.kind = "oauthCallback" /\ o.stage = "exchange"
    /\ lastOp' = DidOp("oauthCallbackResponse", outcome, 0)
    /\ CASE outcome \in {"success", "success_noinst"} ->
              LET inst == IF outcome = "success" THEN TheInstallation ELSE 0 IN
              /\ user' = UserAfterExchange(user, outcome)
              /\ installationId' = inst
              /\ storage' = [storage EXCEPT
                     !.github_user_data = StoredUserData(TheUser, inst),
                     !.oauth_state = "",
                     !.pending_installation_id = ""]
              /\ IF inst # 0
                 THEN \* auto-fetch the repositories
                      /\ inflight' = BagAdd(BagRemove(inflight, o),
                             [o EXCEPT !.stage = "repos", !.uid = TheUser,
                                       !.inst = inst])
                      /\ UNCHANGED loading
                 ELSE /\ inflight' = BagRemove(inflight, o)
                      /\ loading' = FALSE
              /\ UNCHANGED error
         [] outcome = "nosuccess" ->
              /\ inflight' = BagRemove(inflight, o)
              /\ loading' = FALSE
              /\ user' = UserAfterExchange(user, outcome)
              /\ UNCHANGED <<installationId, storage, error>>
         [] OTHER ->
              /\ inflight' = BagRemove(inflight, o)
              /\ error' = IF outcome = "error" THEN DetailError ELSE "Failed to fetch"
              /\ loading' = FALSE
              /\ user' = UserAfterExchange(user, outcome)
              /\ UNCHANGED <<installationId, storage>>
    /\ UNCHANGED <<mounted, url, repos, selVars, resVars, validatingPaths,
                   timerVars, processingRef, granted, searchFilter, dispatched, removed>>

\* the backend answers the GET repos that handleOAuthCallback made
OAuthReposResponse ==
  \E o \in DOMAIN inflight, outcome \in {"ok", "notok", "throw"} :
    /\ mounted
    /\ o.kind = "oauthCallback" /\ o.stage = "repos"
    /\ lastOp' = NoOp
    /\ inflight' = BagRemove(inflight, o)
    /\ loading' = FALSE
    /\ IF outcome = "ok"
       THEN /\ repos' = granted
            /\ requiresSelection' = BackendRequiresSelection(granted)
            /\ IF BackendRequiresSelection(granted)
               THEN UNCHANGED <<resVars, storage, removed>>
               ELSE /\ Render(Results(BackendResults(granted)), dbtPaths,
                              originalPaths, pathValidation, storage)
                    /\ removed' = removed \ granted
       ELSE UNCHANGED <<repos, requiresSelection, resVars, storage, removed>>
    /\ UNCHANGED <<mounted, url, user, installationId, error, selectedRepos,
                   analyzing, validatingPaths, timerVars, processingRef, granted, searchFilter,
                   dispatched>>

(***************************************************************************)
(* handleModifyAccess (lines 517-528)                                      *)
(***************************************************************************)
HandleModifyAccess ==
  /\ mounted
  /\ user # NoUser
  /\ BagSize(inflight) < MaxInFlight
  /\ inflight' = BagAdd(inflight, Op("handleModifyAccess", "url"))
  /\ lastOp' = NoOp
  /\ UNCHANGED <<mounted, url, storage, uiVars, selVars, resVars, validatingPaths,
                 timerVars, processingRef, granted, searchFilter, dispatched, removed>>

\* the backend answers GET installation-url
ModifyAccessResponse ==
  \E o \in DOMAIN inflight, outcome \in {"url", "nourl", "throw"} :
    /\ mounted
    /\ o.kind = "handleModifyAccess"
    /\ lastOp' = NoOp
    /\ CASE outcome = "url" -> Unloaded(storage)
         [] outcome = "nourl" ->
              /\ inflight' = BagRemove(inflight, o)
              /\ UNCHANGED <<mounted, url, storage, uiVars, selVars, resVars,
                             validatingPaths, timerVars, processingRef, granted, searchFilter,
                             dispatched, removed>>
         [] OTHER ->
              /\ inflight' = BagRemove(inflight, o)
              /\ error' = "Failed to get configuration URL"
              /\ UNCHANGED <<mounted, url, storage, user, installationId, repos,
                             loading, selVars, resVars, validatingPaths, timerVars,
                             processingRef, granted, searchFilter, dispatched, removed>>

(***************************************************************************)
(* handleDisconnect (lines 530-557)                                        *)
(***************************************************************************)
\* the Disconnect button: handleDisconnect up to its await of POST logout
HandleDisconnect ==
  /\ mounted
  /\ user # NoUser
  /\ BagSize(inflight) < MaxInFlight
  /\ inflight' = BagAdd(inflight, [Op("handleDisconnect", "logout") EXCEPT !.uid = user])
  /\ lastOp' = NoOp
  /\ UNCHANGED <<mounted, url, storage, uiVars, selVars, resVars, validatingPaths,
                 timerVars, processingRef, granted, searchFilter, dispatched, removed>>

\* try { await fetch(logout) } catch { console.error }: the handler goes on to
\* the cleanup whatever the request did (the response status is never read)
DisconnectCleansUpOnOk(outcome) == outcome = "ok"

DisconnectCleansUp(outcome) == outcome \in {"ok", "fail", "throw"}

\* POST logout answered (2xx or an error status) or thrown: the local cleanup
LogoutResponse ==
  \E o \in DOMAIN inflight, outcome \in {"ok", "fail", "throw"} :
    /\ mounted
    /\ o.kind = "handleDisconnect"
    /\ lastOp' = DidOp("logoutResponse", outcome,
                       IF ~analyzeResults.null /\ storage.github_analysis_data.present
                       THEN 1 ELSE 0)
    /\ inflight' = BagRemove(inflight, o)
    /\ IF DisconnectCleansUp(outcome)
       THEN /\ user' = NoUser
            /\ installationId' = 0
            /\ repos' = {}
            /\ requiresSelection' = FALSE
            /\ selectedRepos' = {}
            /\ Render(NullResults, EmptyMap, EmptyMap, EmptyMap,
                      [storage EXCEPT !.github_user_data = AbsentUserData,
                                      !.github_analysis_data = AbsentAnalysisData,
                                      !.pending_installation_id = "",
                                      !.oauth_state = ""])
       ELSE UNCHANGED <<user, installationId, repos, requiresSelection,
                        selectedRepos, resVars, storage>>
    /\ UNCHANGED <<mounted, url, loading, error, analyzing, validatingPaths,
                   timerVars, processingRef, granted, searchFilter, dispatched, removed>>

(***************************************************************************)
(* Specifications                                                          *)
(***************************************************************************)
\* Before the page is opened: localStorage is st, the installation grants g.
InitWith(st, g) ==
  /\ mounted = FALSE
  /\ url = NoParams
  /\ storage = st
  /\ user = NoUser
  /\ installationId = 0
  /\ repos = {}
  /\ loading = FALSE
  /\ error = ""
  /\ requiresSelection = FALSE
  /\ selectedRepos = {}
  /\ analyzeResults = NullResults
  /\ analyzing = FALSE
  /\ dbtPaths = EmptyMap
  /\ originalPaths = EmptyMap
  /\ pathValidation = EmptyMap
  /\ validatingPaths = EmptyMap
  /\ debounceTimers = EmptyMap
  /\ processingRef = FALSE
  /\ timers = {}
  /\ inflight = EmptyBag
  /\ granted = g
  /\ lastOp = NoOp
  /\ dispatched = <<>>
  /\ removed = {}
  /\ editClock = EmptyMap
  /\ burstCalls = EmptyMap
  /\ pathHist = EmptyMap
  /\ searchFilter = <<>>

\* localStorage of a user who connected on an earlier visit
SessionStorage ==
  [EmptyStorage EXCEPT !.github_user_data = StoredUserData(TheUser, TheInstallation)]

\* localStorage of a user whose earlier visit also left the analysis of the
\* repositories S, as the persistence effect wrote it
AnalyzedStorage(S) ==
  LET ar == Results(BackendResults(S))
      ip == InitPathsEffect(ar, EmptyMap, EmptyMap, EmptyMap)
  IN PersistEffect(ar, ip.dbtPaths, ip.originalPaths, ip.pathValidation,
                   SessionStorage)

\* the user opens the page at its plain address
OpenPage ==
  /\ ~mounted
  /\ \E n \in 1..MaxEffectRuns : Load(NoParams, n, "open")

\* The authorization handshake: a first visit or a returning user, any
\* navigation, one granted repository.
Init ==
  \E st \in {EmptyStorage, SessionStorage} : InitWith(st, {"o/r1"})

Next ==
  \/ Navigate
  \/ Reload
  \/ RestoreSessionResponse
  \/ HandleConnect
  \/ ConnectResponse
  \/ InstallCallbackResponse
  \/ OAuthCallbackResponse
  \/ OAuthReposResponse
  \/ FetchReposResponse
  \/ FetchRestoreResponse
  \/ HandleDisconnect
  \/ LogoutResponse

Spec == Init /\ [][Next]_vars

\* Navigations with every combination of query parameters, and the
\* exchanges they start.
NextClassify ==
  \/ NavigateTo(AllNavParams)
  \/ RestoreSessionResponse
  \/ InstallCallbackResponse
  \/ OAuthCallbackResponse
  \/ OAuthReposResponse

SpecClassify == Init /\ [][NextClassify]_vars

\* Editing, validating, saving and reverting the path of an analyzed
\* repository that was restored from localStorage.
InitSave == InitWith(AnalyzedStorage({"o/r1"}), {"o/r1"})

NextSave ==
  \/ OpenPage
  \/ RestoreSessionResponse
  \/ HandlePathChange
  \/ Tick
  \/ DebounceTimerFires
  \/ ValidateResponse
  \/ HandleSavePath
  \/ HandleCancelPath

SpecSave == InitSave /\ [][NextSave]_vars

\* A returning user whose installation grants no, one or two repositories.
InitEffect ==
  \E g \in {{}, {"o/r1"}, {"o/r1", "o/r2"}} : InitWith(SessionStorage, g)

NextEffect ==
  \/ OpenPage
  \/ Reload
  \/ RestoreSessionResponse
  \/ FetchRepos
  \/ FetchReposResponse
  \/ FetchRestoreResponse
  \/ HandleRemoveRepo

SpecEffect == InitEffect /\ [][NextEffect]_vars

\* The selection list of a returning user whose installation grants more
\* repositories than are analyzed automatically: every checkbox.
InitToggle == InitWith(SessionStorage, RepoSet)

NextToggle ==
  \/ OpenPage
  \/ RestoreSessionResponse
  \/ FetchReposResponse
  \/ FetchRestoreResponse
  \/ ToggleRepoSelectionIn(RepoSet)

SpecToggle == InitToggle /\ [][NextToggle]_vars

\* The selection and analysis workflow of the same user, who looks at the
\* first repositories of the list only.
FewRepos == {"o/r1", "o/r2"}

InitSel ==
  \E st \in {SessionStorage,
              [EmptyStorage EXCEPT !.github_user_data = StoredUserData(TheUser, 0)]} :
    InitWith(st, RepoSet)

NextSel ==
  \/ OpenPage
  \/ RestoreSessionResponse
  \/ FetchRepos
  \/ FetchReposResponse
  \/ FetchRestoreResponse
  \/ ToggleRepoSelectionIn(FewRepos)
  \/ CancelSelection
  \/ AnalyzeSelected
  \/ AnalyzeResponse
  \/ AnalyzeRestoreResponse

SpecSel == InitSel /\ [][NextSel]_vars

\* The same selection list with its search input, up to the submission of
\* the selection; the user toggles the first repositories only.
InitFilter == InitWith(SessionStorage, RepoSet)

NextFilter ==
  \/ OpenPage
  \/ RestoreSessionResponse
  \/ FetchReposResponse
  \/ SetSearchFilter
  \/ ToggleRepoSelectionIn(FewRepos)
  \/ AnalyzeSelected

SpecFilter == InitFilter /\ [][NextFilter]_vars

\* Path editing by a returning user whose installation grants one
\* repository, which the backend analyzes automatically.
InitPath == InitWith(SessionStorage, {"o/r1"})

NextPath ==
  \/ OpenPage
  \/ RestoreSessionResponse
  \/ FetchReposResponse
  \/ FetchRestoreResponse
  \/ HandlePathChange
  \/ Tick
  \/ DebounceTimerFires
  \/ ValidateResponse
  \/ HandleSavePath
  \/ HandleCancelPath
  \/ HandleRemoveRepo

SpecPath == InitPath /\ [][NextPath]_vars

\* Path editing by a returning user with two analyzed repositories: two
\* path inputs and their timers, up to the sending of the validations.
InitTimers == InitWith(AnalyzedStorage({"o/r1", "o/r2"}), {"o/r1", "o/r2"})

NextTimers ==
  \/ OpenPage
  \/ RestoreSessionResponse
  \/ HandlePathChange
  \/ Tick
  \/ DebounceTimerFires

SpecTimers == InitTimers /\ [][NextTimers]_vars

\* The selection under every operation that touches it: fetching, toggling,
\* analyzing, removing a result, reloading, disconnecting.  The user's
\* earlier visit left the analysis of five repositories; the installation
\* now grants a sixth, and the user works on the first and the last
\* repository (their checkboxes, their result cards).
FiveRepos == RepoSet \ {"o/r6"}

EndRepos == {"o/r1", "o/r6"}

InitBound == InitWith(AnalyzedStorage(FiveRepos), RepoSet)

NextBound ==
  \/ OpenPage
  \/ Reload
  \/ RestoreSessionResponse
  \/ FetchRepos
  \/ FetchReposResponse
  \/ ToggleRepoSelectionIn(EndRepos)
  \/ AnalyzeSelected
  \/ AnalyzeResponse
  \/ HandleRemoveRepoIn(EndRepos)
  \/ HandleDisconnect
  \/ LogoutResponse

SpecBound == InitBound /\ [][NextBound]_vars

\* The same user, who also reloads the page and fetches again.
InitReload == InitWith(SessionStorage, {"o/r1"})

NextReload ==
  \/ OpenPage
  \/ Reload
  \/ RestoreSessionResponse
  \/ FetchRepos
  \/ FetchReposResponse
  \/ FetchRestoreResponse
  \/ HandlePathChange
  \/ Tick
  \/ DebounceTimerFires
  \/ ValidateResponse
  \/ HandleSavePath
  \/ HandleCancelPath
  \/ HandleRemoveRepo

SpecReload == InitReload /\ [][NextReload]_vars

(***************************************************************************)
(* Properties                                                              *)
(***************************************************************************)
\* C1: a toggle of a selection of at most MAX_SELECTION members leaves at
\* most MAX_SELECTION members; it removes a member, adds a non-member when
\* the size is below MAX_SELECTION, and at MAX_SELECTION leaves the set and
\* the error message as they are.
C1_ToggleBounded ==
  [][ (lastOp'.name = "toggleRepoSelection"
       /\ Cardinality(selectedRepos) <= MAX_SELECTION)
      => LET f == lastOp'.key IN
         /\ Cardinality(selectedRepos') <= MAX_SELECTION
         /\ f \in selectedRepos => selectedRepos' = selectedRepos \ {f}
         /\ (f \notin selectedRepos /\ Cardinality(selectedRepos) < MAX_SELECTION)
              => selectedRepos' = selectedRepos \cup {f}
         /\ (f \notin selectedRepos /\ Cardinality(selectedRepos) = MAX_SELECTION)
              => (selectedRepos' = selectedRepos /\ error' = error) ]_vars

\* a non-member was toggled at capacity and the set stayed as it was
C1_Witness ==
  /\ lastOp.name = "toggleRepoSelection"
  /\ lastOp.n = MAX_SELECTION
  /\ lastOp.key \notin selectedRepos
  /\ Cardinality(selectedRepos) = MAX_SELECTION

\* C2: in a burst of edits of one key, each less than DEBOUNCE_MS after the
\* one before, no validation is issued before DEBOUNCE_MS have passed since
\* the last edit; exactly one is issued then, with the last edit's value.
C2_DebounceOnce ==
  /\ (lastOp.name = "debounceTimer" /\ lastOp.key \in DOMAIN editClock)
       => /\ lastOp.n = DEBOUNCE_MS
          /\ lastOp.path = editClock[lastOp.key].path
  /\ \A k \in DOMAIN burstCalls :
       /\ burstCalls[k] <= 1
       /\ editClock[k].t < DEBOUNCE_MS => burstCalls[k] = 0
       /\ (editClock[k].t >= DEBOUNCE_MS
           /\ \A t \in timers : ~(t.key = k /\ t.left = 0))
            => burstCalls[k] = 1

\* the timer of a burst of several edits has run
C2_Witness ==
  /\ lastOp.name = "debounceTimer"
  /\ lastOp.key \in DOMAIN editClock
  /\ editClock[lastOp.key].edits > 1
  /\ burstCalls[lastOp.key] = 1

\* C3: a fetchRepos or analyzeSelected operation makes at most one restore
\* call and at most two requests; a first 401 with a known installation id
\* is followed by one restore call, a successful restore by one retry, and a
\* failure of the retry is shown as the error with nothing issued after it.
C3_OneRetry ==
  /\ \A o \in DOMAIN inflight :
       o.kind \in {"fetchRepos", "analyzeSelected"} =>
         /\ o.restores <= 1
         /\ o.reqs <= 2
         /\ o.stage = "restore"
              => (o.first401 /\ o.inst # 0 /\ o.restores = 1 /\ o.reqs = 1)
         /\ (o.stage # "restore" /\ o.retry) => (o.reqs = 1 /\ o.restores = 0)
         /\ (o.stage # "restore" /\ ~o.retry) => (o.reqs = 2 /\ o.restores = 1)
  /\ lastOp.name \in {"fetchReposResponse", "analyzeResponse"} =>
       /\ (lastOp.key = "401" /\ lastOp.path = "first")
            => \E o \in DOMAIN inflight :
                 /\ o.kind = IF lastOp.name = "fetchReposResponse"
                             THEN "fetchRepos" ELSE "analyzeSelected"
                 /\ o.stage = "restore"
       /\ (lastOp.key # "ok" /\ lastOp.path # "first")
            => error # ""
       /\ lastOp.path = "retry" => lastOp.n = 2

\* the retry after a successful restore was answered 401 as well
C3_Witness ==
  /\ lastOp.name \in {"fetchReposResponse", "analyzeResponse"}
  /\ lastOp.key = "401"
  /\ lastOp.path = "retry"
  /\ lastOp.n = 2

\* C4: one page load dispatches at most one callback handler and issues at
\* most one callback exchange, however often the mount effect runs.
C4_DispatchOnce ==
  /\ Len(dispatched) <= 1
  /\ PendingExchanges <= 1

\* the mount effect ran more than once for a navigation with a callback
C4_Witness ==
  /\ lastOp.name = "navigate"
  /\ lastOp.n > 1
  /\ Len(dispatched) = 1
  /\ PendingExchanges = 1

\* C5: an OAuth callback whose state parameter differs from the oauth_state
\* that localStorage holds is rejected: an error is shown, no callback exchange is
\* issued, and without an earlier session no user is set and none is stored.
C5_StateMismatchRejected ==
  \A i \in 1..Len(dispatched) :
    (/\ mounted
     /\ dispatched[i].fn = "handleOAuthCallback"
     /\ storage.oauth_state # ""
     /\ ~dispatched[i].stateOk)
    => /\ error # ""
       /\ \A o \in DOMAIN inflight : o.kind # "oauthCallback"
       /\ ~dispatched[i].hadSession
            => (user = NoUser /\ ~storage.github_user_data.present)

\* C6: once handleRemoveRepo(f) has run, f has no result, no current path,
\* no original path and no validity entry until a fetch or analyze response
\* lists f again, whatever timers and validations were pending for f.
C6_RemovedStaysRemoved ==
  \A f \in removed :
    /\ f \notin Names(analyzeResults.items)
    /\ f \notin DOMAIN dbtPaths
    /\ f \notin DOMAIN originalPaths
    /\ f \notin DOMAIN pathValidation

\* nothing is pending: no request in flight and no timer armed
Quiescent == mounted /\ inflight = EmptyBag /\ timers = {}

\* C7: in every quiescent state the repositories of analyzeResults are
\* exactly the keys of dbtPaths, of originalPaths and of pathValidation.
C7_KeysAgree ==
  Quiescent =>
    /\ DOMAIN dbtPaths = Names(analyzeResults.items)
    /\ DOMAIN originalPaths = Names(analyzeResults.items)
    /\ DOMAIN pathValidation = Names(analyzeResults.items)

\* C8: while a user is connected, localStorage holds an analysis record
\* exactly when the in-memory result list is non-empty.
C8_RecordIffResults ==
  (mounted /\ user # NoUser) =>
    (storage.github_analysis_data.present
       <=> (~analyzeResults.null /\ Len(analyzeResults.items) > 0))

\* the in-memory view a reload is to reproduce
View ==
  <<user, installationId, analyzeResults, dbtPaths, originalPaths, pathValidation>>

\* C9: a reload from a quiescent authenticated state reproduces user,
\* installationId, analyzeResults, dbtPaths, originalPaths and pathValidation.
C9_ReloadRoundTrip ==
  [][ (lastOp'.name = "reload" /\ Quiescent /\ user # NoUser)
      => View' = View ]_vars

PendingRepoFetches ==
  LET rq == {o \in DOMAIN inflight :
               o.kind \in {"fetchRepos", "oauthCallback"} /\ o.stage = "repos"}
      RECURSIVE Sum(_)
      Sum(S) == IF S = {} THEN 0
                ELSE LET e == CHOOSE x \in S : TRUE IN inflight[e] + Sum(S \ {e})
  IN Sum(rq)

\* C11: when the OAuth exchange succeeds the session {user, installation id}
\* is stored, oauth_state and pending_installation_id are removed, the user
\* is set, and the page has exactly one repository fetch under way when an
\* installation id came back and none when it did not, also while a stored
\* session is being restored.
C11_ExchangeSuccess ==
  [][ (lastOp'.name = "oauthCallbackResponse"
       /\ lastOp'.key \in {"success", "success_noinst"})
      => LET inst == IF lastOp'.key = "success" THEN TheInstallation ELSE 0 IN
         /\ storage'.github_user_data = StoredUserData(TheUser, inst)
         /\ storage'.oauth_state = ""
         /\ storage'.pending_installation_id = ""
         /\ user' = TheUser
         /\ installationId' = inst
         /\ PendingRepoFetches' = (IF inst # 0 THEN 1 ELSE 0) ]_vars

\* C12: when the OAuth exchange fails, with an error response or with an
\* answer that lacks the success flag, an error is shown and no session is
\* stored; without an earlier session the user stays null.
C12_ExchangeFailure ==
  [][ (lastOp'.name = "oauthCallbackResponse"
       /\ lastOp'.key \in {"error", "nosuccess"})
      => /\ error' # ""
         /\ storage'.github_user_data = storage.github_user_data
         /\ user' = user ]_vars

\* C13: when the installation exchange answers needs_oauth, the installation
\* id and the new token are in localStorage when the page is left; and the
\* exchange of an OAuth callback carries the callback's code and state and
\* the pending installation id that localStorage holds at that load.
C13_PendingIdCorrelates ==
  [][ /\ (lastOp'.name = "installCallbackResponse" /\ lastOp'.key = "needs_oauth")
         => /\ ~mounted'
            /\ storage'.pending_installation_id = IdToString(lastOp'.n)
            /\ storage'.oauth_state = "s2"
      /\ (lastOp'.name = "navigate" /\ lastOp'.key # ""
          /\ Len(dispatched') = 1 /\ dispatched'[1].fn = "handleOAuthCallback")
         => /\ PendingExchanges' = 1
            /\ \A o \in DOMAIN inflight' :
                 o.kind = "oauthCallback"
                 => /\ o.pending = storage.pending_installation_id
                    /\ o.code = lastOp'.key
                    /\ o.state = lastOp'.path ]_vars

\* the exchange of an OAuth callback is under way with the installation id
\* that the installation callback left in localStorage
C13_Witness ==
  /\ lastOp.name = "navigate"
  /\ lastOp.key = "c1"
  /\ storage.pending_installation_id = "42"
  /\ storage.oauth_state = "s2"
  /\ \E o \in DOMAIN inflight :
       o.kind = "oauthCallback" /\ o.stage = "exchange" /\ o.pending = "42"

\* C14: when the installation exchange answers with a full completion, the
\* user and the installation id are set and the session is stored, without
\* leaving the page.
C14_InstallCompletes ==
  [][ (lastOp'.name = "installCallbackResponse" /\ lastOp'.key = "success")
      => /\ mounted'
         /\ user' = TheUser
         /\ installationId' = lastOp'.n
         /\ storage'.github_user_data = StoredUserData(TheUser, lastOp'.n) ]_vars

\* C15: handleConnect stores the returned token and leaves for the returned
\* URL; when the request throws or the answer has no url, an error is shown
\* and the loading flag and localStorage are as they were before the call.
C15_ConnectOutcome ==
  [][ lastOp'.name = "connectResponse"
      => /\ lastOp'.key = "url"
              => (~mounted' /\ storage'.oauth_state = "s1")
         /\ lastOp'.key \in {"nourl", "throw"}
              => /\ error' # ""
                 /\ loading' = (lastOp'.n = 1)
                 /\ storage' = storage
                 /\ user' = user /\ installationId' = installationId ]_vars

\* C16: when the load-time restore fails because the installation is no
\* longer usable, the stored session and analysis record are removed and
\* user, installationId, analyzeResults, dbtPaths, originalPaths and
\* pathValidation are all empty.
C16_InvalidGrantWipes ==
  [][ (lastOp'.name = "restoreSessionResponse" /\ lastOp'.key = "token")
      => /\ ~storage'.github_user_data.present
         /\ ~storage'.github_analysis_data.present
         /\ user' = NoUser
         /\ installationId' = 0
         /\ analyzeResults' = NullResults
         /\ dbtPaths' = EmptyMap
         /\ originalPaths' = EmptyMap
         /\ pathValidation' = EmptyMap ]_vars

\* C17: when the load-time restore fails for another reason, with another
\* message or with an exception, localStorage and the in-memory user,
\* installationId and analysis state stay as they are and no repository
\* fetch is started.
C17_SoftFailure ==
  [][ (lastOp'.name = "restoreSessionResponse" /\ lastOp'.key \in {"other", "throw"})
      => /\ storage' = storage
         /\ user' = user
         /\ installationId' = installationId
         /\ <<analyzeResults, dbtPaths, originalPaths, pathValidation>>'
              = <<analyzeResults, dbtPaths, originalPaths, pathValidation>>
         /\ <<loading, error, repos>>' = <<loading, error, repos>>
         /\ PendingRepoFetches' = PendingRepoFetches ]_vars

\* the restore of a page with a hydrated analysis failed softly
C17_Witness ==
  /\ lastOp.name = "restoreSessionResponse"
  /\ lastOp.key = "other"
  /\ lastOp.n = 1
  /\ user = TheUser
  /\ storage.github_user_data.present
  /\ storage.github_analysis_data.present
  /\ ~analyzeResults.null

\* C18 as stated: after a successful load-time restore a repository fetch is
\* started exactly when no analysis record was stored at load.
C18_FetchIffNoRecord ==
  [][ (lastOp'.name = "restoreSessionResponse" /\ lastOp'.key = "ok")
      => /\ lastOp'.n = 0 => PendingRepoFetches' = PendingRepoFetches + 1
         /\ lastOp'.n = 1 => PendingRepoFetches' = PendingRepoFetches ]_vars

\* C18 as amended: after a successful load-time restore a repository fetch
\* is started exactly when no analysis record was stored at load and the
\* user is still set; a stored record is hydrated at load without a fetch.
C18_FetchIffNoRecordAndUser ==
  [][ /\ (lastOp'.name = "restoreSessionResponse" /\ lastOp'.key = "ok")
         => /\ (lastOp'.n = 0 /\ user # NoUser)
                 => PendingRepoFetches' = PendingRepoFetches + 1
            /\ (lastOp'.n = 1 \/ user = NoUser)
                 => PendingRepoFetches' = PendingRepoFetches
      /\ (lastOp'.name \in {"open", "navigate", "reload", "reloadInExchange"}
          /\ storage.github_user_data.present
          /\ storage.github_analysis_data.present)
         => /\ analyzeResults' = Results(storage.github_analysis_data.analyzeResults)
            /\ dbtPaths' = storage.github_analysis_data.dbtPaths
            /\ PendingRepoFetches' = 0 ]_vars

\* the restore of a page that hydrated a stored record succeeded
C18_Witness ==
  /\ lastOp.name = "restoreSessionResponse"
  /\ lastOp.key = "ok"
  /\ lastOp.n = 1
  /\ ~analyzeResults.null
  /\ PendingRepoFetches = 0

\* the restore succeeded after the user had disconnected: no fetch
C18_WitnessDisconnected ==
  /\ lastOp.name = "restoreSessionResponse"
  /\ lastOp.key = "ok"
  /\ lastOp.n = 0
  /\ user = NoUser
  /\ PendingRepoFetches = 0

\* C19: the user is set only after a callback exchange or a backend restore
\* succeeded in this page load: right after a load, before any answer has
\* arrived, the user is null.
C19_RestoreBeforeUser ==
  [][ lastOp'.name \in {"open", "navigate", "reload", "reloadInExchange"} => user' = NoUser ]_vars

\* C20 as stated: while the page stays loaded, user and installationId
\* become null again only through handleDisconnect.
C20_OnlyDisconnectResets ==
  [][ (/\ mounted /\ mounted'
       /\ \/ user # NoUser /\ user' = NoUser
          \/ installationId # 0 /\ installationId' = 0)
      => lastOp'.name = "logoutResponse" ]_vars

\* C20 as amended: while the page stays loaded, the user becomes null again
\* only through handleDisconnect or through a load-time restore that fails
\* because the installation is unusable; installationId becomes null only
\* through these two or through a successful OAuth exchange that returns no
\* installation id.
C20_ResetsOnlyByDisconnectOrWipe ==
  [][ /\ (mounted /\ mounted' /\ user # NoUser /\ user' = NoUser)
         => \/ lastOp'.name = "logoutResponse"
            \/ lastOp'.name = "restoreSessionResponse" /\ lastOp'.key = "token"
      /\ (mounted /\ mounted' /\ installationId # 0 /\ installationId' = 0)
         => \/ lastOp'.name = "logoutResponse"
            \/ lastOp'.name = "restoreSessionResponse" /\ lastOp'.key = "token"
            \/ lastOp'.name = "oauthCallbackResponse"
               /\ lastOp'.key = "success_noinst" ]_vars

\* an invalid-grant answer to the restore has cleared the user
C20_Witness ==
  /\ mounted
  /\ lastOp.name = "restoreSessionResponse"
  /\ lastOp.key = "token"
  /\ user = NoUser
  /\ installationId = 0
  /\ ~storage.github_user_data.present


(***************************************************************************)
(* C21: handleDisconnect always completes its local cleanup, whether the   *)
(* logout request succeeds, answers with an error status or throws: when   *)
(* the handler ends, the user and the installation id are null, the        *)
(* repository list, the analysis results, the three path maps and the      *)
(* selection are empty, requiresSelection is false, and none of the four   *)
(* persisted keys is present in localStorage.                              *)
(***************************************************************************)
C21_DisconnectCleansUp ==
  [][lastOp'.name = "logoutResponse" =>
       /\ user' = NoUser
       /\ installationId' = 0
       /\ repos' = {}
       /\ analyzeResults' = NullResults
       /\ dbtPaths' = EmptyMap
       /\ originalPaths' = EmptyMap
       /\ pathValidation' = EmptyMap
       /\ selectedRepos' = {}
       /\ requiresSelection' = FALSE
       /\ storage' = EmptyStorage]_vars

\* the logout request threw while analysis results were shown and stored,
\* and the handler has ended
C21_Witness ==
  /\ lastOp.name = "logoutResponse"
  /\ lastOp.key = "throw"
  /\ lastOp.n = 1


(***************************************************************************)
(* C24: the callback parameters are removed from the visible address       *)
(* before the first asynchronous step of the exchange, so while an         *)
(* exchange is in flight the address carries no parameters, and a reload   *)
(* of the page at any later point, the exchange still in flight included,  *)
(* is classified as no callback: it dispatches no handler and starts no    *)
(* exchange.                                                               *)
(***************************************************************************)
C24_ReloadIsNoCallback ==
  /\ (mounted /\ PendingExchanges > 0 => url = NoParams)
  /\ (lastOp.name \in {"reload", "reloadInExchange"} =>
        PendingExchanges = 0 /\ dispatched = <<>>)

\* the page was reloaded while the exchange of a callback was in flight
C24_Witness ==
  /\ lastOp.name = "reloadInExchange"
  /\ dispatched = <<>>


(***************************************************************************)
(* C23: save takes effect only in states where the key's validity is       *)
(* true, and then sets the original path to the current path, leaving the  *)
(* current paths and the validities unchanged; so every original path      *)
(* committed by save was the current path at a moment when the validity    *)
(* was true.                                                               *)
(***************************************************************************)
C23_SaveOnlyWhenValid ==
  [][lastOp'.name = "handleSavePath" =>
       /\ Get(pathValidation, lastOp'.key) = VTrue
       /\ Get(originalPaths', lastOp'.key) = Get(dbtPaths, lastOp'.key)
       /\ dbtPaths' = dbtPaths
       /\ pathValidation' = pathValidation]_vars

\* an edited path was saved: it is the new original path
C23_Witness ==
  /\ lastOp.name = "handleSavePath"
  /\ lastOp.path # ""
  /\ Get(originalPaths, lastOp.key) = lastOp.path
  /\ Get(pathValidation, lastOp.key) = VTrue


(***************************************************************************)
(* C22: in every reachable state and for every repository key, if the      *)
(* current path carries an edit that has not been validated (no            *)
(* validation response for exactly the current path value has been         *)
(* applied since the path last changed), then the key's validity is        *)
(* unknown (null); this covers edits, cancel, and late responses to        *)
(* superseded edits.                                                       *)
(***************************************************************************)
C22_UnvalidatedIsNull ==
  \A k \in DOMAIN pathHist \cap DOMAIN dbtPaths :
    pathHist[k] = "none" => Get(pathValidation, k) = VNull

(***************************************************************************)
(* C28: for each repository key there are never two validation requests    *)
(* in flight at the same time where one of them validates a superseded     *)
(* edit: a request for an older value of the path is never outstanding     *)
(* while a request for a newer value of the same key is in flight.         *)
(***************************************************************************)
C28_NoStaleValidationInFlight ==
  \A o1, o2 \in DOMAIN inflight :
    (/\ o1.kind = "validateDbtPath"
     /\ o2.kind = "validateDbtPath"
     /\ o1.key = o2.key) => o1.path = o2.path

(***************************************************************************)
(* C30: cancel sets the current path to the original path and at once      *)
(* issues one validation call for it; after a cancel with no further       *)
(* edits, once no timer and no validation of the key is pending, the       *)
(* validity recorded for the key is the backend's answer for the original  *)
(* path.                                                                   *)
(***************************************************************************)
C30_CancelRevalidatesOriginal ==
  \A k \in DOMAIN pathHist \cap DOMAIN dbtPaths :
    (/\ k \notin DOMAIN editClock
     /\ \A t \in timers : t.key # k
     /\ \A o \in DOMAIN inflight : ~(o.kind = "validateDbtPath" /\ o.key = k))
    => /\ Get(dbtPaths, k) = Get(originalPaths, k)
       /\ pathHist[k] # "none"
       /\ Get(pathValidation, k) = pathHist[k]


(***************************************************************************)
(* C25: when fetchRepos or analyzeSelected ends in a transport or backend  *)
(* error, a failed restore and a failed retry included, only the error     *)
(* message and the loading / analyzing flags change: the repository list,  *)
(* requiresSelection, the selection, the analysis results and the path     *)
(* state (as well as the session and localStorage) are what they were.    *)
(* The steps of the operation that precede the error (a 401 answer that    *)
(* starts a restore, the restore's answer) change none of them either.     *)
(***************************************************************************)
C25_EndsInError ==
  \/ /\ lastOp.name \in {"fetchReposResponse", "analyzeResponse"}
     /\ \/ lastOp.key \in {"error", "throw"}
        \/ lastOp.key = "401" /\ lastOp.path # "first"
  \/ /\ lastOp.name \in {"fetchRestoreResponse", "analyzeRestoreResponse"}
     /\ lastOp.key \in {"fail", "throw"}

C25_ErrorKeepsState ==
  [][ /\ ( \/ /\ lastOp'.name \in {"fetchReposResponse", "analyzeResponse"}
              /\ lastOp'.key # "ok"
           \/ lastOp'.name \in {"fetchRestoreResponse", "analyzeRestoreResponse"} )
         => UNCHANGED <<repos, requiresSelection, selectedRepos, analyzeResults,
                        dbtPaths, originalPaths, pathValidation, validatingPaths,
                        user, installationId, storage, url>>
      /\ C25_EndsInError' =>
           /\ error' # ""
           /\ lastOp'.name \in {"fetchReposResponse", "fetchRestoreResponse"}
                => ~loading' /\ analyzing' = analyzing
           /\ lastOp'.name \in {"analyzeResponse", "analyzeRestoreResponse"}
                => ~analyzing' /\ loading' = loading ]_vars

\* the retry that fetchRepos made after a successful restore failed, while
\* earlier repositories and analysis results were on screen: they still are
C25_Witness ==
  /\ lastOp.name = "fetchReposResponse"
  /\ lastOp.key = "error"
  /\ lastOp.path = "retry"
  /\ repos # {}
  /\ ~analyzeResults.null
  /\ error # ""


(***************************************************************************)
(* C26: the search filter never changes the selection.  The displayed      *)
(* repositories are exactly those whose name or full_name contains the     *)
(* filter text, compared without regard to case; a selected repository     *)
(* that the filter hides stays selected, and the analyze request submits   *)
(* the whole selection, hidden members included.                           *)
(***************************************************************************)
C26_FilterKeepsSelection ==
  [][ /\ lastOp'.name = "setSearchFilter" => selectedRepos' = selectedRepos
      /\ Displayed =
           {f \in repos :
              \E s \in {NameChars(f), FullNameChars(f)} :
                \E i \in 0..Len(s) :
                  /\ i + Len(searchFilter) <= Len(s)
                  /\ \A j \in 1..Len(searchFilter) :
                       ToLowerChar(s[i + j]) = ToLowerChar(searchFilter[j])}
      /\ lastOp'.name = "analyzeSelected" =>
           /\ selectedRepos' = selectedRepos
           /\ \A o \in DOMAIN inflight' :
                (o.kind = "analyzeSelected" /\ o.stage = "analyze" /\ o.reqs = 1)
                  => o.names = selectedRepos ]_vars

\* analyze was pressed while the filter, typed in capitals, hid a selected
\* repository: the request carries it
C26_Witness ==
  /\ lastOp.name = "analyzeSelected"
  /\ searchFilter = <<"R", "1">>
  /\ Displayed = {"o/r1"}
  /\ selectedRepos \ Displayed # {}
  /\ \E o \in DOMAIN inflight :
       o.kind = "analyzeSelected" /\ o.names = selectedRepos


(***************************************************************************)
(* C27: there is at most one pending validation timer per repository key.  *)
(* An edit of key k cancels k's previous timer and arms one for the new    *)
(* value; it never cancels or changes the timer of another key.            *)
(***************************************************************************)
C27_OneTimerPerKey ==
  [][ /\ \A t1, t2 \in timers' : t1.key = t2.key => t1 = t2
      /\ \A k \in DOMAIN editClock' :
           \* the step is an edit of k
           (/\ editClock'[k].t = 0
            /\ k \notin DOMAIN editClock \/ editClock[k] # editClock'[k])
           => /\ {t \in timers' : t.key # k} = {t \in timers : t.key # k}
              /\ \A t \in timers' :
                   t.key = k =>
                     /\ t.path = editClock'[k].path
                     /\ t.left = DEBOUNCE_MS
                     /\ t.id = debounceTimers'[k]
              /\ \E t \in timers' : t.key = k ]_vars

\* o/r1 was edited again within its debounce while the timer of o/r2 was
\* running: that timer goes on, partly elapsed
C27_Witness ==
  /\ "o/r1" \in DOMAIN editClock
  /\ editClock["o/r1"].t = 0
  /\ editClock["o/r1"].edits > 1
  /\ \E t \in timers : t.key = "o/r2" /\ t.left < DEBOUNCE_MS
  /\ Cardinality(timers) = 2


(***************************************************************************)
(* C29: in every reachable state, under any interleaving of fetch,         *)
(* analyze, toggle, remove, reload and disconnect, the selection has at    *)
(* most MAX_SELECTION (5) members; in particular the selection that        *)
(* fetchRepos pre-populates from the current analysis results when the     *)
(* backend asks for a selection has at most 5 members.                     *)
(***************************************************************************)
C29_SelectionBounded ==
  /\ Cardinality(selectedRepos) <= MAX_SELECTION
  /\ \A o \in DOMAIN inflight :
       o.kind = "fetchRepos" => Cardinality(o.names) <= MAX_SELECTION

\* fetchRepos was answered with requires_selection and pre-populated the
\* selection with the five repositories analyzed before
C29_Witness ==
  /\ lastOp.name = "fetchReposResponse"
  /\ lastOp.key = "ok"
  /\ requiresSelection
  /\ ~analyzeResults.null
  /\ selectedRepos = Names(analyzeResults.items)
  /\ Cardinality(selectedRepos) = MAX_SELECTION


(***************************************************************************)
(* C36: callback classification yields exactly one outcome per navigation, *)
(* with fixed precedence.  A navigation carrying both installation_id and  *)
(* setup_action is handled as an installation callback only, also when a   *)
(* code is present (the code is then never exchanged); a navigation with a *)
(* code but without both installation parameters is handled as an OAuth    *)
(* callback only; otherwise no handler runs.                               *)
(***************************************************************************)
C36_Classification ==
  [][ \A params \in AllNavParams, n \in 1..MaxEffectRuns :
        Load(params, n, "navigate") =>
          LET installs == {o \in DOMAIN inflight' : o.kind = "installCallback"}
              oauths == {o \in DOMAIN inflight' : o.kind = "oauthCallback"}
          IN
          IF params.installation_id # "" /\ params.setup_action # ""
          THEN /\ Len(dispatched') = 1
               /\ dispatched'[1].fn = "handleInstallationCallback"
               /\ \A o \in installs :
                    /\ inflight'[o] = 1
                    /\ o.inst = ParseInt(params.installation_id)
                    /\ o.state = params.setup_action
               /\ Cardinality(installs) = 1
               /\ oauths = {}
          ELSE IF params.code # ""
          THEN /\ Len(dispatched') = 1
               /\ dispatched'[1].fn = "handleOAuthCallback"
               /\ installs = {}
               /\ \A o \in oauths : inflight'[o] = 1 /\ o.code = params.code
               /\ Cardinality(oauths) <= 1
          ELSE /\ dispatched' = <<>>
               /\ installs = {}
               /\ oauths = {} ]_vars

\* a navigation carried a code and both installation parameters: the
\* installation callback alone is in flight
C36_Witness ==
  /\ lastOp.name = "navigate"
  /\ lastOp.key = "c1"
  /\ Len(dispatched) = 1
  /\ dispatched[1].fn = "handleInstallationCallback"
  /\ \E o \in DOMAIN inflight : o.kind = "installCallback" /\ o.inst = 42
  /\ \A o \in DOMAIN inflight : o.kind # "oauthCallback"


(***************************************************************************)
(* C34: on a page load with a persisted session and an OAuth callback the  *)
(* restore and the exchange run concurrently; the session a successful     *)
(* exchange established (user and installationId in memory, the session    *)
(* record in localStorage) is not removed or overwritten by the outcome of *)
(* the restore of the older session.  Stated for the completion order      *)
(* exchange first, restore second.                                         *)
(***************************************************************************)
C34_ExchangedSessionSurvives ==
  [][ ( /\ lastOp.name = "oauthCallbackResponse"
        /\ lastOp.key \in {"success", "success_noinst"}
        /\ lastOp'.name = "restoreSessionResponse" )
      => /\ user' = user
         /\ installationId' = installationId
         /\ storage'.github_user_data = storage.github_user_data ]_vars


(***************************************************************************)
(* C35: after handleDisconnect has finished, the persisted session and     *)
(* analysis records stay absent and the in-memory analysis results and     *)
(* path-validation state stay empty until a new successful authentication, *)
(* whatever response or timer was pending at the disconnect.  Stated for   *)
(* the step that follows the cleanup, unless that step loads the page or   *)
(* answers an OAuth exchange.                                              *)
(***************************************************************************)
C35_DisconnectedStaysClean ==
  [][ ( /\ lastOp.name = "logoutResponse"
        /\ user = NoUser
        /\ lastOp'.name \notin {"navigate", "reload", "reloadInExchange",
                                "open", "oauthCallbackResponse"} )
      => /\ ~storage'.github_user_data.present
         /\ ~storage'.github_analysis_data.present
         /\ analyzeResults'.null
         /\ dbtPaths' = EmptyMap
         /\ originalPaths' = EmptyMap
         /\ pathValidation' = EmptyMap ]_vars


(***************************************************************************)
(* C31: every validation call issued for a key validates the key's current *)
(* path at the moment of issue: when a debounce timer fires, the path it   *)
(* hands to validateDbtPath (with '.' for the empty path) is the one       *)
(* dbtPaths holds for the key, also after a cancel or a removal of the key *)
(* in between.                                                             *)
(***************************************************************************)
C31_ValidatesCurrentPath ==
  lastOp.name = "debounceTimer" =>
    /\ lastOp.key \in DOMAIN dbtPaths
    /\ PathOrDot(lastOp.path) = PathOrDot(dbtPaths[lastOp.key])


(***************************************************************************)
(* C32: whenever the validity of a key is null, a validation of that key   *)
(* is scheduled (its debounce timer is pending) or in flight, so that the  *)
(* validity eventually becomes valid or invalid; this holds also for the   *)
(* state hydrated from the persisted analysis record after a reload.       *)
(***************************************************************************)
C32_NullIsBeingValidated ==
  mounted =>
    \A k \in DOMAIN pathValidation :
      pathValidation[k] = VNull =>
        \/ \E t \in timers : t.key = k
        \/ \E o \in DOMAIN inflight : o.kind = "validateDbtPath" /\ o.key = k


(***************************************************************************)
(* C33: after any fetch or analyze response has installed an analysis      *)
(* result list, the path-state initialization effect reaches a fixpoint    *)
(* after finitely many updates, for every result list including an empty   *)
(* one (a fetch answer with requires_selection=false and no repository).   *)
(***************************************************************************)
C33_InitEffectSettles ==
  (mounted /\ ~analyzeResults.null) =>
    InitPathsUpdates(analyzeResults, dbtPaths, MaxEffectUpdates) < MaxEffectUpdates

=============================================================================
